---- MODULE Spec2Model ----
(***************************************************************************)
(* Model of owmeta_core.dataobject_property.Property and its sub-classes   *)
(* (src/owmeta_core/dataobject_property.py).                               *)
(*                                                                         *)
(* One Property instance p with a fixed owner is modelled.  Its state is   *)
(* the list of Statements _v, the has-defined-value cache _hdf and, for    *)
(* every value object, the number of times p occurs in that object's       *)
(* owner_properties list.  A contextualized view of p is a proxy that      *)
(* overrides only `context`; every other attribute is the one of p, so a   *)
(* view is identified by the context it is bound to, and every operation   *)
(* takes the context of the view it is called through.                     *)
(*                                                                         *)
(* The other components have a specification of their own each, over their *)
(* own variables: PropertyExpr (SpecExpr, SpecSub), the ordering of the    *)
(* property classes (SpecTypes), the choice of the most specific type      *)
(* (SpecGmsrt), DataWithEvidenceDataSource.context_for (SpecCtxFor) and    *)
(* DataSource.__init__ (SpecDS), the imports of the contexts               *)
(* (SpecImports), the zero-or-more layer of a query under get()           *)
(* (SpecZom, SpecZomFair), the import                                      *)
(* Overrider (SpecOverrider), GenericTranslation (SpecTranslation), the    *)
(* call of a data translator (SpecCall), and the Property with value       *)
(* objects that change their defined state (SpecDefined).                  *)
(* In each specification the variables of                                  *)
(* the other components keep their initial value.                          *)
(***************************************************************************)
EXTENDS Integers, Sequences, FiniteSets, TLC

\* ------------------------------------------------------------------ bounds
\* Longest list of Statements the property is allowed to grow to.
MaxLen == 2

\* The most ad-hoc contexts one data source is asked to make.
MaxContexts == 2

\* How many calls about the import Overrider a run makes
MaxCalls == 7

\* How many times source() is called on one GenericTranslation
MaxSources == 2

\* How many times a translator is called and how many outputs it makes
MaxTranslations == 2

\* ------------------------------------------------------------------ values
\* The context of a property that has not been contextualized (Python None).
NoCtx == "None"
\* The contexts of the views the calls are made through.
Contexts == {"c1", "c2"}
\* Every value of a view's `context`.
AllContexts == Contexts \cup {NoCtx}

\* GraphObject instances a caller can pass to set / unset.
GraphObjects == {"o1", "o2"}
\* Python None passed as a value.
NoneV == "NoneV"
\* A bare scalar: not a GraphObject and without an `idl` attribute.
Raw == "raw"
\* The ContextualizedPropertyValue that Property.set wraps a bare scalar in.
PV == "pv"
\* The placeholder Variable("var" + str(id(self))) of Property.get.
Var == "var"
\* Everything a caller can hand to set.
SetInputs == GraphObjects \cup {NoneV, Raw}
\* Every object that can be the object of a Statement of the property.
ValueObjects == GraphObjects \cup {PV, Var}

\* The kinds of property modelled: the base Property (as DatatypeProperty
\* uses it) and ObjectProperty.
Kinds == {"Property", "ObjectProperty"}

\* Statement(self.owner, self, v, self.context): owner and property are fixed,
\* two Statements are equal when object and context are equal.
Statement(obj, ctx) == [object |-> obj, context |-> ctx]

\* isinstance(v, GraphObject)
IsGraphObject(val) == val \in GraphObjects

\* hasattr(v, 'idl')
HasIdl(val) == val \in GraphObjects

\* ------------------------------------------------------------------ state
VARIABLES
    _v,                \* Property._v: the list of Statements
    _hdf,              \* Property._hdf: context -> "None" (no entry, or None) | "True"
    owner_properties,  \* value object -> occurrences of p in its owner_properties
    multiple,          \* the class attribute `multiple`
    kind,              \* the class of p
    last               \* the most recent call: operation, argument, bound context,
                       \* error, and for a set the Statements held when it was called

\* The state of the Property.
propVars == <<_v, _hdf, owner_properties, multiple, kind, last>>

\* PropertyExpr: the expression p.expr | q.expr under study
VARIABLES
    graph,             \* the store: per property its owner's identifier, the
                       \* terms Property.get_terms finds and the order the
                       \* set of them yields them in
    expr,              \* the expression: the two properties and PropertyExpr.props
    terms,             \* PropertyExpr.terms
    dict,              \* PropertyExpr.dict
    expr_last          \* the most recent call on the expression and its result

exprVars == <<graph, expr, terms, dict, expr_last>>

\* PropertyExpr: the sub-expressions of one expression
VARIABLES
    value_types,              \* the value_type of each of the expression's props
    created_sub_expressions,  \* PropertyExpr.created_sub_expressions
    objects_made,             \* how many PropertyExpr objects were constructed
    sub_last                  \* the most recent call and the object it returned

subVars == <<value_types, created_sub_expressions, objects_made, sub_last>>

\* The property classes and the registered types
VARIABLES
    class_bases,       \* the direct base classes of each class
    class_names,       \* the __name__ of each class
    lt_last,           \* the most recent comparison self < other and its result
    gmsrt_last         \* the most recent get_most_specific_rdf_type call

typeVars == <<class_bases, class_names, lt_last, gmsrt_last>>

\* DataWithEvidenceDataSource
VARIABLES
    ad_hoc_contexts,   \* DataWithEvidenceDataSource.__ad_hoc_contexts
    contexts_made,     \* how many Context objects context_for constructed
    data_context_imported, \* the contexts self.data_context imports, one for
                       \* each add_import, oldest first
    ctx_last           \* the most recent context_for call and what it returned

ctxVars == <<ad_hoc_contexts, contexts_made, data_context_imported, ctx_last>>

\* DataSource
VARIABLES
    info_fields,       \* the Informationals of the class: also, default_value
                       \* and default_override of each
    ds_last            \* the most recent construction and its outcome

dsVars == <<info_fields, ds_last>>

\* Context: the imports of the contexts
VARIABLES
    imported,          \* the edges (context, imported context) add_import made
    closure,           \* per context the contexts a query through it reads,
                       \* once computed
    import_last        \* the most recent call and, for a query, the statements
                       \* it saw

importVars == <<imported, closure, import_last>>

\* The zero-or-more layer of a query along the subtype predicate
VARIABLES
    subclass_of,       \* the statements (sub, super) of the store
    zom_todo,          \* the types still to expand
    zom_seen,          \* the types expanded
    zom_results,       \* the terms found, in the order they were found
    zom_pc             \* "idle" before get(), "query" while the query runs,
                       \* then "done" or "raised"

zomVars == <<subclass_of, zom_todo, zom_seen, zom_results, zom_pc>>

\* The import Overrider of the process
VARIABLES
    ImportOverrider,   \* owmeta_core.ImportOverrider
    Overrider_instance, \* Overrider.instance
    overriders_made,   \* how many Overrider objects were constructed
    wrapped,           \* how many times the import machinery was wrapped
    over_log           \* the calls made and their results, oldest first

overVars == <<ImportOverrider, Overrider_instance, overriders_made, wrapped,
              over_log>>

\* GenericTranslation: two translations
VARIABLES
    translator,        \* per translation the identifier of its translator
    source_v           \* per translation the _v of its source property

transVars == <<translator, source_v>>

\* BaseDataTranslator: one translator
VARIABLES
    output_key,        \* BaseDataTranslator.output_key
    output_identifier, \* BaseDataTranslator.output_identifier
    call_pc,           \* "idle" before the first call, "translate" inside
                       \* __call__, "returned" or "raised" after a call
    call_passed,       \* what the calls that are running were given, the
                       \* innermost call last
    calls_made,        \* how many calls were begun
    outputs            \* what each make_new_output read, oldest first

callVars == <<output_key, output_identifier, call_pc, call_passed, calls_made,
              outputs>>

\* The value objects of the Property that are not defined now
VARIABLES undefined_objects

defVars == <<undefined_objects>>

\* The components in two groups
coreVars == <<propVars, exprVars, subVars, typeVars, ctxVars, dsVars>>
extVars == <<importVars, zomVars, overVars, transVars, callVars, defVars>>

\* The components after DataSource, each with all the others of them
importOthers == <<zomVars, overVars, transVars, callVars, defVars>>
zomOthers == <<importVars, overVars, transVars, callVars, defVars>>
overOthers == <<importVars, zomVars, transVars, callVars, defVars>>
transOthers == <<importVars, zomVars, overVars, callVars, defVars>>
callOthers == <<importVars, zomVars, overVars, transVars, defVars>>
defOthers == <<importVars, zomVars, overVars, transVars, callVars>>

vars == <<coreVars, extVars>>

\* x.object.defined: a Variable is never defined; another value object is
\* unless it has lost what its identifier is made of.
defined(obj) == obj # Var /\ obj \notin undefined_objects

\* The object state the methods work on, with the error a method left with.
State(v, op, hdf, err) == [v |-> v, op |-> op, hdf |-> hdf, err |-> err]
Cur == State(_v, owner_properties, _hdf, "none")

\* ------------------------------------------------------------------ helpers
\* list.remove(x): the list without its first element equal to x.
RECURSIVE RemoveFirst(_, _)
RemoveFirst(s, x) ==
    IF s = <<>> THEN <<>>
    ELSE IF Head(s) = x THEN Tail(s)
    ELSE <<Head(s)>> \o RemoveFirst(Tail(s), x)

\* x in list
Contains(s, x) == \E i \in 1..Len(s) : s[i] = x

\* Number of Statements of s whose object is obj.
RECURSIVE CountObject(_, _)
CountObject(s, obj) ==
    IF s = <<>> THEN 0
    ELSE (IF Head(s).object = obj THEN 1 ELSE 0) + CountObject(Tail(s), obj)

\* Number of elements of s equal to x.
RECURSIVE CountStmt(_, _)
CountStmt(s, x) ==
    IF s = <<>> THEN 0
    ELSE (IF Head(s) = x THEN 1 ELSE 0) + CountStmt(Tail(s), x)

\* dict(): no context has an entry.
EmptyHdf == [c \in AllContexts |-> "None"]

\* ------------------------------------------------------------------ Property
\* Property._insert_value
_insert_value(st, obj, ctx) ==
    State(Append(st.v, Statement(obj, ctx)),
          [st.op EXCEPT ![obj] = @ + 1],
          [st.hdf EXCEPT ![ctx] = "None"],
          "none")

\* Property._remove_value (also Property.unset)
_remove_value(st, obj, ctx) ==
    IF st.op[obj] = 0
    THEN State(st.v, st.op, st.hdf, "AssertionError")
    ELSE LET hdf == [st.hdf EXCEPT ![ctx] = "None"]
             op  == [st.op EXCEPT ![obj] = @ - 1]
         IN IF Contains(st.v, Statement(obj, ctx))
            THEN State(RemoveFirst(st.v, Statement(obj, ctx)), op, hdf, "none")
            ELSE State(st.v, op, hdf, "ValueError")

\* The loop of Property.clear: a list iterator at (1-based) position i over the
\* list that the loop body shrinks.
RECURSIVE ClearLoop(_, _)
ClearLoop(st, i) ==
    IF i > Len(st.v) THEN st
    ELSE LET x == st.v[i] IN
         IF st.op[x.object] = 0
         THEN State(st.v, st.op, st.hdf, "AssertionError")
         ELSE ClearLoop(State(RemoveFirst(st.v, x),
                              [st.op EXCEPT ![x.object] = @ - 1],
                              st.hdf, "none"),
                        i + 1)

\* A clear that drops the cache and keeps the values.
clear_cache_only(st) == State(st.v, st.op, EmptyHdf, "none")

\* Property.clear
clear(st) == ClearLoop(State(st.v, st.op, EmptyHdf, "none"), 1)

\* The object Property.set stores for val: val itself, or the
\* ContextualizedPropertyValue it wraps a value without `idl` in.
Wrapped(val) == IF HasIdl(val) THEN val ELSE PV

\* A Property.set that clears before it looks at the value.
Property_set_clear_first(st, val, ctx, mult) ==
    LET c == IF mult THEN st ELSE clear(st)
    IN IF val = NoneV THEN State(c.v, c.op, c.hdf, "ValueError")
       ELSE IF c.err # "none" THEN c
       ELSE _insert_value(c, Wrapped(val), ctx)

\* Property.set
Property_set(st, val, ctx, mult) ==
    IF val = NoneV THEN State(st.v, st.op, st.hdf, "ValueError")
    ELSE LET c == IF mult THEN st ELSE clear(st)
         IN IF c.err # "none" THEN c
            ELSE _insert_value(c, Wrapped(val), ctx)

\* An ObjectProperty.set without the isinstance check.
ObjectProperty_set_unchecked(st, val, ctx, mult) ==
    Property_set(st, val, ctx, mult)

\* ObjectProperty.set.  The mixins between it and Property.set pass a
\* GraphObject on unchanged.
ObjectProperty_set(st, val, ctx, mult) ==
    IF ~IsGraphObject(val) THEN State(st.v, st.op, st.hdf, "Exception")
    ELSE Property_set(st, val, ctx, mult)

\* A _values_helper that does not compare contexts.
_values_helper_any_context(v, ctx) == v

\* Property._values_helper: the Statements of the objects it yields through the
\* view bound to ctx.
_values_helper(v, ctx) ==
    SelectSeq(v, LAMBDA x : x.context = ctx)

\* Property.values, as a set of objects
values(v, ctx) == {_values_helper(v, ctx)[i].object : i \in 1..Len(_values_helper(v, ctx))}

\* Property.defined_values, as a set of objects
defined_values(v, ctx) ==
    {v[i].object : i \in {j \in 1..Len(v) : defined(v[j].object) /\ v[j].context = ctx}}

\* Property.has_value
has_value(v, ctx) == \E i \in 1..Len(v) : v[i].context = ctx

\* Property.has_defined_value: the answer returned.
has_defined_value(st, ctx) ==
    IF st.hdf[ctx] # "None" THEN st.hdf[ctx] = "True"
    ELSE \E i \in 1..Len(st.v) : st.v[i].context = ctx /\ defined(st.v[i].object)

\* Property.has_defined_value: the state it leaves.
has_defined_value_state(st, ctx) ==
    IF st.hdf[ctx] = "None" /\ has_defined_value(st, ctx)
    THEN State(st.v, st.op, [st.hdf EXCEPT ![ctx] = "True"], "none")
    ELSE st

\* Property.get.  Nothing between _insert_value and _remove_value catches an
\* exception of the querier.  path is what the environment decides: "nordf" (self.rdf is
\* None), "defined" (the owner is defined: a lookup in the store), "query" (the
\* owner is not defined and the querier returns) or "raise" (the owner is not
\* defined and the querier raises).
get(st, ctx, path) ==
    IF path \in {"nordf", "defined"} THEN st
    ELSE LET ins == _insert_value(st, Var, ctx)
         IN IF path = "raise"
            THEN State(ins.v, ins.op, ins.hdf, "QueryError")
            ELSE _remove_value(ins, Var, ctx)

\* A contextualize_augment that drops the whole cache.
contextualize_augment_reset(st, ctx) == State(st.v, st.op, EmptyHdf, "none")

\* Property.contextualize_augment: the state it leaves.
contextualize_augment(st, ctx) ==
    State(st.v, st.op, [st.hdf EXCEPT ![ctx] = "None"], "none")

\* Property.decontextualize on the view bound to ctx: the state it leaves.
decontextualize(st, ctx) ==
    State(st.v, st.op, [st.hdf EXCEPT ![ctx] = "None"], "none")

\* ------------------------------------------------------------------ idle
\* The value the variables of PropertyExpr keep where no expression is made.
ExprIdle ==
    /\ graph = <<>>
    /\ expr = <<>>
    /\ terms = <<>>
    /\ dict = <<>>
    /\ expr_last = <<>>

SubIdle ==
    /\ value_types = <<>>
    /\ created_sub_expressions = <<>>
    /\ objects_made = 0
    /\ sub_last = <<>>

TypeIdle ==
    /\ class_bases = <<>>
    /\ class_names = <<>>
    /\ lt_last = <<>>
    /\ gmsrt_last = <<>>

CtxIdle ==
    /\ ad_hoc_contexts = <<>>
    /\ contexts_made = 0
    /\ data_context_imported = <<>>
    /\ ctx_last = <<>>

DsIdle ==
    /\ info_fields = <<>>
    /\ ds_last = <<>>

ImportIdle ==
    /\ imported = {}
    /\ closure = <<>>
    /\ import_last = <<>>

ZomIdle ==
    /\ subclass_of = {}
    /\ zom_todo = {}
    /\ zom_seen = {}
    /\ zom_results = <<>>
    /\ zom_pc = "done"

OverIdle ==
    /\ ImportOverrider = <<>>
    /\ Overrider_instance = <<>>
    /\ overriders_made = 0
    /\ wrapped = 0
    /\ over_log = <<>>

TransIdle ==
    /\ translator = <<>>
    /\ source_v = <<>>

CallIdle ==
    /\ output_key = <<>>
    /\ output_identifier = <<>>
    /\ call_pc = "idle"
    /\ call_passed = <<>>
    /\ calls_made = 0
    /\ outputs = <<>>

\* Every value object keeps the defined state of its kind.
DefIdle ==
    /\ undefined_objects = {}

ExtIdle ==
    /\ ImportIdle
    /\ ZomIdle
    /\ OverIdle
    /\ TransIdle
    /\ CallIdle
    /\ DefIdle

ImportOthersIdle ==
    ZomIdle /\ OverIdle /\ TransIdle /\ CallIdle /\ DefIdle
ZomOthersIdle ==
    ImportIdle /\ OverIdle /\ TransIdle /\ CallIdle /\ DefIdle
OverOthersIdle ==
    ImportIdle /\ ZomIdle /\ TransIdle /\ CallIdle /\ DefIdle
TransOthersIdle ==
    ImportIdle /\ ZomIdle /\ OverIdle /\ CallIdle /\ DefIdle
CallOthersIdle ==
    ImportIdle /\ ZomIdle /\ OverIdle /\ TransIdle /\ DefIdle
DefOthersIdle ==
    ImportIdle /\ ZomIdle /\ OverIdle /\ TransIdle /\ CallIdle

\* ------------------------------------------------------------------ actions
Call(op, val, ctx, err, held) ==
    [op |-> op, v |-> val, c |-> ctx, err |-> err, held |-> held]

Commit(st) ==
    /\ _v' = st.v
    /\ owner_properties' = st.op
    /\ _hdf' = st.hdf
    /\ UNCHANGED <<exprVars, subVars, typeVars, ctxVars, dsVars, extVars>>

TypeOK ==
    /\ Len(_v) <= MaxLen
    /\ \A i \in 1..Len(_v) : _v[i].object \in ValueObjects /\ _v[i].context \in Contexts
    /\ _hdf \in [AllContexts -> {"None", "True"}]
    /\ owner_properties \in [ValueObjects -> 0..MaxLen]
    /\ multiple \in BOOLEAN
    /\ kind \in Kinds

Init ==
    /\ _v = <<>>
    /\ _hdf = EmptyHdf
    /\ owner_properties = [o \in ValueObjects |-> 0]
    /\ multiple \in BOOLEAN
    /\ kind \in Kinds
    /\ last = Call("init", "-", NoCtx, "none", <<>>)
    /\ ExprIdle
    /\ SubIdle
    /\ TypeIdle
    /\ CtxIdle
    /\ DsIdle
    /\ ExtIdle

\* p.set(val) through the view bound to ctx.  Each wrapped scalar and each
\* placeholder is a fresh object; the model keeps at most one of each alive.
Set(ctx, val) ==
    LET st == IF kind = "ObjectProperty"
              THEN ObjectProperty_set(Cur, val, ctx, multiple)
              ELSE Property_set(Cur, val, ctx, multiple)
    IN /\ Len(st.v) <= MaxLen
       /\ CountObject(st.v, PV) <= 1
       /\ Commit(st)
       /\ last' = Call("set", val, ctx, st.err, _v)
       /\ UNCHANGED <<multiple, kind>>

\* p.clear(), through any view: it does not read the view's context.
Clear ==
    LET st == clear(Cur)
    IN /\ Commit(st)
       /\ last' = Call("clear", "-", NoCtx, st.err, <<>>)
       /\ UNCHANGED <<multiple, kind>>

\* p.unset(obj) through the view bound to ctx.
Unset(ctx, obj) ==
    LET st == _remove_value(Cur, obj, ctx)
    IN /\ Commit(st)
       /\ last' = Call("unset", obj, ctx, st.err, <<>>)
       /\ UNCHANGED <<multiple, kind>>

\* p.get() through the view bound to ctx.  The call record keeps the path taken.
Get(ctx, path) ==
    LET st == get(Cur, ctx, path)
    IN /\ path \in {"query", "raise"} => Len(_v) < MaxLen /\ CountObject(_v, Var) = 0
       /\ Commit(st)
       /\ last' = Call("get", path, NoCtx, st.err, <<>>)
       /\ UNCHANGED <<multiple, kind>>

\* p.has_defined_value() through the view bound to ctx.
HasDefinedValue(ctx) ==
    LET st == has_defined_value_state(Cur, ctx)
    IN /\ Commit(st)
       /\ last' = Call("has_defined_value", "-", NoCtx, "none", <<>>)
       /\ UNCHANGED <<multiple, kind>>

\* view.contextualize(ctx): the view returned is bound to ctx and is a proxy of
\* p, so the call leaves no other trace than that of contextualize_augment.
Contextualize(ctx) ==
    LET st == contextualize_augment(Cur, ctx)
    IN /\ Commit(st)
       /\ last' = Call("contextualize", "-", ctx, "none", <<>>)
       /\ UNCHANGED <<multiple, kind>>

\* view.decontextualize() on the view bound to self_ctx.
Decontextualize(self_ctx) ==
    LET st == decontextualize(Cur, self_ctx)
    IN /\ Commit(st)
       /\ last' = Call("decontextualize", "-", self_ctx, "none", <<>>)
       /\ UNCHANGED <<multiple, kind>>

Next ==
    \/ \E ctx \in Contexts, val \in SetInputs : Set(ctx, val)
    \/ Clear
    \/ \E ctx \in Contexts, obj \in GraphObjects : Unset(ctx, obj)
    \/ \E ctx \in Contexts, path \in {"nordf", "defined", "query", "raise"} : Get(ctx, path)
    \/ \E ctx \in Contexts : HasDefinedValue(ctx)
    \/ \E ctx \in AllContexts : Contextualize(ctx)
    \/ \E self_ctx \in Contexts : Decontextualize(self_ctx)

Spec == Init /\ [][Next]_vars

\* The Property with value objects whose defined state changes: a DataObject
\* stops being defined when a key property of it is unset or cleared, and is
\* defined again when the key property is set.
BecomeUndefined(obj) ==
    /\ obj \notin undefined_objects
    /\ undefined_objects' = undefined_objects \cup {obj}
    /\ UNCHANGED <<coreVars, defOthers>>

BecomeDefined(obj) ==
    /\ obj \in undefined_objects
    /\ undefined_objects' = undefined_objects \ {obj}
    /\ UNCHANGED <<coreVars, defOthers>>

NextDefined ==
    \/ Next
    \/ \E obj \in GraphObjects : BecomeUndefined(obj)
    \/ \E obj \in GraphObjects : BecomeDefined(obj)

SpecDefined == Init /\ [][NextDefined]_vars

\* The value the variables of the Property keep in the other specifications.
PropIdle ==
    /\ _v = <<>>
    /\ _hdf = EmptyHdf
    /\ owner_properties = [o \in ValueObjects |-> 0]
    /\ multiple = FALSE
    /\ kind = "Property"
    /\ last = Call("init", "-", NoCtx, "none", <<>>)

\* ------------------------------------------------------------------ PropertyExpr
\* The properties an expression is made of, the identifiers of their owners
\* and the terms the store holds.
Props == {"p1", "p2"}
Subjects == {"s1", "s2"}
Terms == {"t1", "t2"}

\* A Python None is the empty tuple and any other value x the tuple <<x>>.
None == <<>>
Some(x) == <<x>>

Range(seq) == {seq[i] : i \in DOMAIN seq}

\* The orders a Python set can yield the terms in: it depends on the hash seed
\* of the process and on the order the store gave the triples in.
TermOrders == {o \in [1..Cardinality(Terms) -> Terms] : Range(o) = Terms}

\* list(S) of a Python set: its elements once each, in the order the set
\* yields them in this run.
list(S, order) == SelectSeq(order, LAMBDA x : x \in S)

\* Property.get_terms (Property.get) of a property with a defined owner: the
\* set of the objects of the store's triples (owner, link, None).
get_terms(p) == graph.objects[p]

\* Property.expr: PropertyExpr([self]), made once for each property.  An
\* expression is known by the object it is ("id"); "sides" holds the two
\* expressions whose providers a union chains.
Property_expr(p) == [id |-> <<p>>, props |-> <<p>>, sides |-> <<>>]

\* PropertyExpr.__or__, and before it a union that chains the providers of self
\* alone
or_chain_self_only(self, other) ==
    IF self.id = other.id THEN self
    ELSE [id |-> self.id \o other.id,
          props |-> self.props \o other.props,
          sides |-> <<self, self>>]

__or__(self, other) ==
    IF self.id = other.id THEN self
    ELSE [id |-> self.id \o other.id,
          props |-> self.props \o other.props,
          sides |-> <<self, other>>]

\* PropertyExpr._compute_terms
RECURSIVE _compute_terms(_)
_compute_terms(props) ==
    IF props = <<>> THEN <<>>
    ELSE list(get_terms(Head(props)), graph.order[Head(props)])
             \o _compute_terms(Tail(props))

\* PropertyExpr._make_triples: (owner identifier, link, term) for each term of
\* each property; the property stands for its link.
RECURSIVE _make_triples(_)
_make_triples(props) ==
    IF props = <<>> THEN <<>>
    ELSE LET p == Head(props)
             ts == list(get_terms(p), graph.order[p])
         IN [i \in DOMAIN ts |-> <<graph.owner[p], p, ts[i]>>]
                \o _make_triples(Tail(props))

\* The terms_provider of an expression: _compute_terms for Property.expr, the
\* chain of both sides' providers for a union.
RECURSIVE terms_provider(_)
terms_provider(e) ==
    IF e.sides = <<>> THEN _compute_terms(e.props)
    ELSE terms_provider(e.sides[1]) \o terms_provider(e.sides[2])

RECURSIVE triples_provider(_)
triples_provider(e) ==
    IF e.sides = <<>> THEN _make_triples(e.props)
    ELSE triples_provider(e.sides[1]) \o triples_provider(e.sides[2])

\* PropertyExpr.to_terms: the memo "terms" after the call, which is returned.
to_terms(e, memo) ==
    IF memo = None THEN Some(terms_provider(e)) ELSE memo

\* The values of the mapping to_dict builds: one object, or a set of objects.
One(o) == [one |-> TRUE, objs |-> {o}]
Many(S) == [one |-> FALSE, objs |-> S]

DictGet(res, s) == IF s \in DOMAIN res THEN Some(res[s]) ELSE None
DictPut(res, s, v) ==
    [x \in (DOMAIN res) \cup {s} |-> IF x = s THEN v ELSE res[x]]

\* The loop of to_dict(multiple=False): None where PropertyExprError is raised.
RECURSIVE to_dict_single(_, _)
to_dict_single(triples, res) ==
    IF triples = <<>> THEN Some(res)
    ELSE LET s == Head(triples)[1]
             o == Head(triples)[3]
             current_value == DictGet(res, s)
         IN IF current_value # None /\ current_value[1] # One(o)
            THEN None
            ELSE to_dict_single(Tail(triples), DictPut(res, s, One(o)))

\* The loop of to_dict(multiple=True)
RECURSIVE to_dict_multiple(_, _)
to_dict_multiple(triples, res) ==
    IF triples = <<>> THEN res
    ELSE LET s == Head(triples)[1]
             o == Head(triples)[3]
             vals == DictGet(res, s)
         IN IF vals = None
            THEN to_dict_multiple(Tail(triples), DictPut(res, s, Many({o})))
            ELSE to_dict_multiple(Tail(triples),
                     DictPut(res, s, Many(vals[1].objs \cup {o})))

\* PropertyExpr.to_dict: the error, the memo "dict" after the call and the
\* value returned.
to_dict(e, mult, memo) ==
    IF memo # None THEN [err |-> "none", dict |-> memo, ret |-> memo]
    ELSE IF mult
    THEN LET res == to_dict_multiple(triples_provider(e), <<>>)
         IN [err |-> "none", dict |-> Some(res), ret |-> Some(res)]
    ELSE LET res == to_dict_single(triples_provider(e), <<>>)
         IN IF res = None
            THEN [err |-> "PropertyExprError", dict |-> None, ret |-> None]
            ELSE [err |-> "none", dict |-> res, ret |-> res]

ExprCall(op, mult, err, ret) ==
    [op |-> op, multiple |-> mult, err |-> err, ret |-> ret]

\* A store and the expression p.expr | q.expr of two of its properties.
InitExpr ==
    /\ graph \in [owner : [Props -> Subjects], objects : [Props -> SUBSET Terms],
                  order : [Props -> TermOrders]]
    /\ \E p \in Props, q \in Props :
           expr = [of |-> <<p, q>>, e |-> __or__(Property_expr(p), Property_expr(q))]
    /\ terms = None
    /\ dict = None
    /\ expr_last = ExprCall("init", FALSE, "none", None)
    /\ PropIdle
    /\ SubIdle
    /\ TypeIdle
    /\ CtxIdle
    /\ DsIdle
    /\ ExtIdle

ToTerms ==
    /\ terms' = to_terms(expr.e, terms)
    /\ expr_last' = ExprCall("to_terms", FALSE, "none", terms')
    /\ UNCHANGED <<graph, expr, dict, propVars, subVars, typeVars, ctxVars, dsVars, extVars>>

ToDict(mult) ==
    LET r == to_dict(expr.e, mult, dict)
    IN /\ dict' = r.dict
       /\ expr_last' = ExprCall("to_dict", mult, r.err, r.ret)
       /\ UNCHANGED <<graph, expr, terms, propVars, subVars, typeVars, ctxVars, dsVars, extVars>>

NextExpr ==
    \/ ToTerms
    \/ \E mult \in BOOLEAN : ToDict(mult)

SpecExpr == InitExpr /\ [][NextExpr]_vars

\* ------------------------------------------------ PropertyExpr sub-expressions
\* The links of the property classes, the attribute names asked of an
\* expression and the value types of its props.
Links == {"l1", "l2"}
Attrs == {"a1", "a2"}
NoValueType == "NoValueType"
ValueTypes == {"vt1", "vt2"}

\* getattr(v, attr) of a value type: the link of the property class it declares
\* under that name, None where it declares none (AttributeError).  vt1
\* declares a1 and a2, vt2 only a1.
getattr(v, attr) ==
    IF attr = "a1" THEN Some("l1")
    ELSE IF v = "vt1" THEN Some("l2")
    ELSE None

\* The keys of created_sub_expressions
LinkKey(link) == <<"link", link>>
AttrKey(attr) == <<"attr", attr>>

\* PropertyExpr._create_sub_expression: a new PropertyExpr object, the
\* (made + 1)-th that was constructed.
_create_sub_expression(made, link) == [id |-> made + 1, props |-> <<link>>]

\* res | new_expr of two different objects: one more new object
SubUnion(made, res, new_expr) ==
    [id |-> made + 1, props |-> res.props \o new_expr.props]

SubResult(cache, made, err, ret) ==
    [cache |-> cache, made |-> made, err |-> err, ret |-> ret]

\* PropertyExpr.property, and before it one that never looks into the cache
property_always_create(cache, made, link) ==
    LET res == _create_sub_expression(made, link)
    IN SubResult(DictPut(cache, LinkKey(link), res), made + 1, "none", Some(res))

property(cache, made, link) ==
    IF LinkKey(link) \in DOMAIN cache
    THEN SubResult(cache, made, "none", Some(cache[LinkKey(link)]))
    ELSE LET res == _create_sub_expression(made, link)
         IN SubResult(DictPut(cache, LinkKey(link), res), made + 1, "none", Some(res))

\* The loop of __getattr__ over sub_props: the object made and the count.
RECURSIVE getattr_loop(_, _, _)
getattr_loop(sub_props, made, res) ==
    IF sub_props = <<>> THEN [res |-> res, made |-> made]
    ELSE LET new_expr == _create_sub_expression(made, Head(sub_props))
         IN IF res = None
            THEN getattr_loop(Tail(sub_props), made + 1, Some(new_expr))
            ELSE getattr_loop(Tail(sub_props), made + 2,
                              Some(SubUnion(made + 1, res[1], new_expr)))

\* PropertyExpr.__getattr__
__getattr__(cache, made, vts, attr) ==
    IF AttrKey(attr) \in DOMAIN cache
    THEN SubResult(cache, made, "none", Some(cache[AttrKey(attr)]))
    ELSE IF \E i \in DOMAIN vts : vts[i] = NoValueType
    THEN SubResult(cache, made, "AttributeError", None)
    ELSE IF \E i \in DOMAIN vts : getattr(vts[i], attr) = None
    THEN SubResult(cache, made, "AttributeError", None)
    ELSE LET sub_props == [i \in DOMAIN vts |-> getattr(vts[i], attr)[1]]
             r == getattr_loop(sub_props, made, None)
         IN SubResult(DictPut(cache, AttrKey(attr), r.res[1]), r.made, "none", r.res)

SubCall(op, key, hit, err, ret) ==
    [op |-> op, key |-> key, hit |-> hit, err |-> err, ret |-> ret]

\* An expression of one or two props, with no sub-expression yet.
InitSub ==
    /\ value_types \in [{1} -> ValueTypes \cup {NoValueType}]
                       \cup [{1, 2} -> ValueTypes \cup {NoValueType}]
    /\ created_sub_expressions = <<>>
    /\ objects_made = 0
    /\ sub_last = SubCall("init", <<>>, FALSE, "none", None)
    /\ PropIdle
    /\ ExprIdle
    /\ TypeIdle
    /\ CtxIdle
    /\ DsIdle
    /\ ExtIdle

SubCommit(op, key, r) ==
    /\ created_sub_expressions' = r.cache
    /\ objects_made' = r.made
    /\ sub_last' = SubCall(op, key, key \in DOMAIN created_sub_expressions,
                           r.err, r.ret)
    /\ UNCHANGED <<value_types, propVars, exprVars, typeVars, ctxVars, dsVars, extVars>>

PropertyOf(link) ==
    SubCommit("property", LinkKey(link),
              property(created_sub_expressions, objects_made, link))

GetAttr(attr) ==
    SubCommit("__getattr__", AttrKey(attr),
              __getattr__(created_sub_expressions, objects_made, value_types, attr))

NextSub ==
    \/ \E link \in Links : PropertyOf(link)
    \/ \E attr \in Attrs : GetAttr(attr)

SpecSub == InitSub /\ [][NextSub]_vars

\* ------------------------------------------------------------------ types
\* Three classes; a class is defined after its bases, so the bases of a class
\* are among the classes before it.
Classes == {"K1", "K2", "K3"}
Earlier(k) ==
    IF k = "K1" THEN {} ELSE IF k = "K2" THEN {"K1"} ELSE {"K1", "K2"}

\* The names classes have, and the place of a name in the order of Python's
\* string comparison.
Names == {"A", "B", "C"}
NameOrder == <<"A", "B", "C">>
NameIndex(n) == CHOOSE i \in DOMAIN NameOrder : NameOrder[i] = n

\* issubclass(c, d): d is c or a base, at any depth, of c
RECURSIVE issubclass(_, _)
issubclass(c, d) ==
    \/ c = d
    \/ \E b \in class_bases[c] : issubclass(b, d)

\* ContextMappedPropertyClass.__lt__, and before it one that compares the
\* names alone and one that compares the names with <=
lt_by_name_only(self, other) ==
    NameIndex(class_names[self]) < NameIndex(class_names[other])

lt_names_le(self, other) ==
    IF issubclass(other, self) /\ ~issubclass(self, other) THEN TRUE
    ELSE IF issubclass(self, other) = issubclass(other, self)
    THEN NameIndex(class_names[self]) <= NameIndex(class_names[other])
    ELSE FALSE

__lt__(self, other) ==
    IF issubclass(other, self) /\ ~issubclass(self, other) THEN TRUE
    ELSE IF issubclass(self, other) = issubclass(other, self)
    THEN NameIndex(class_names[self]) < NameIndex(class_names[other])
    ELSE FALSE

InitTypes ==
    /\ class_bases \in {f \in [Classes -> SUBSET Classes] :
                            \A k \in Classes : f[k] \subseteq Earlier(k)}
    /\ class_names \in [Classes -> Names]
    /\ lt_last = [op |-> "init", self |-> "K1", other |-> "K1", res |-> FALSE]
    /\ gmsrt_last = None
    /\ PropIdle
    /\ ExprIdle
    /\ SubIdle
    /\ CtxIdle
    /\ DsIdle
    /\ ExtIdle

Lt(self, other) ==
    /\ lt_last' = [op |-> "__lt__", self |-> self, other |-> other,
                   res |-> __lt__(self, other)]
    /\ UNCHANGED <<class_bases, class_names, gmsrt_last, propVars, exprVars, subVars, ctxVars, dsVars, extVars>>

NextTypes ==
    \/ \E self \in Classes, other \in Classes : Lt(self, other)

SpecTypes == InitTypes /\ [][NextTypes]_vars

\* ------------------------------------------- get_most_specific_rdf_type
\* The RDF types are those of the classes.  With a context whose mapper has
\* the classes registered, a type is related to the types of its class's
\* ancestors; with no context, or no mapper, a type is related to itself alone.
IsOrDescends(t, c, registered) == t = c \/ (registered /\ issubclass(t, c))

\* get_most_specific_rdf_type(types, base, context), and before it one that
\* picks one of the asserted types where none is the most specific: the
\* asserted type that is, or descends from, every asserted type and the base;
\* the base where no type is asserted; None where there is no such type.
gmsrt_guessing(types, base, registered) ==
    IF types = {} THEN base ELSE Some(CHOOSE t \in types : TRUE)

get_most_specific_rdf_type(types, base, registered) ==
    LET all == types \cup (IF base = None THEN {} ELSE {base[1]})
        most_specific == {t \in types : \A c \in all : IsOrDescends(t, c, registered)}
    IN IF types = {} THEN base
       ELSE IF most_specific = {} THEN None
       ELSE Some(CHOOSE t \in most_specific : TRUE)

InitGmsrt ==
    /\ class_bases \in {f \in [Classes -> SUBSET Classes] :
                            \A k \in Classes : f[k] \subseteq Earlier(k)}
    /\ class_names = [k \in Classes |-> "A"]
    /\ lt_last = <<>>
    /\ gmsrt_last = [op |-> "init", types |-> {}, base |-> None,
                     registered |-> FALSE, res |-> None]
    /\ PropIdle
    /\ ExprIdle
    /\ SubIdle
    /\ CtxIdle
    /\ DsIdle
    /\ ExtIdle

Gmsrt(types, base, registered) ==
    /\ gmsrt_last' = [op |-> "get_most_specific_rdf_type", types |-> types,
                      base |-> base, registered |-> registered,
                      res |-> get_most_specific_rdf_type(types, base, registered)]
    /\ UNCHANGED <<class_bases, class_names, lt_last, propVars, exprVars, subVars, ctxVars, dsVars, extVars>>

NextGmsrt ==
    \/ \E types \in SUBSET Classes, base \in {None} \cup {Some(k) : k \in Classes},
          registered \in BOOLEAN : Gmsrt(types, base, registered)

SpecGmsrt == InitGmsrt /\ [][NextGmsrt]_vars

\* ------------------------------------------------------------- context_for
\* Strings are sequences of pieces.  The keywords of a call in the order of
\* sorted(), the identifiers of the objects passed and the ident argument.
KeywordOrder == <<"a", "b">>
Keywords == {"a", "b"}
KeywordValues(k) == IF k = "a" THEN {<<"x">>, <<"y">>} ELSE {<<"x">>}
Idents == {None, Some(<<"i">>)}
MakerIdentifier == <<"ds">>

\* The calls: the keyword arguments in the order they are written, each
\* keyword at most once.
KwargsLists ==
    {<<>>}
    \cup {<<<<k, v>>>> : k \in Keywords, v \in {<<"x">>, <<"y">>}}
    \cup {<<<<k1, v1>>, <<k2, v2>>>> :
              k1 \in Keywords, k2 \in Keywords, v1 \in {<<"x">>, <<"y">>},
              v2 \in {<<"x">>, <<"y">>}}

IsKwargs(kw) ==
    /\ \A i \in DOMAIN kw : kw[i][2] \in KeywordValues(kw[i][1])
    /\ \A i, j \in DOMAIN kw : i # j => kw[i][1] # kw[j][1]

\* The dict kwargs of a call
KwargsDict(kw) ==
    [k \in {kw[i][1] : i \in DOMAIN kw} |->
        (CHOOSE i \in DOMAIN kw : kw[i][1] = k) \* one place for each keyword
    ]

\* sorted(kwargs.keys())
sorted_keys(kw) == SelectSeq(KeywordOrder, LAMBDA k : \E i \in DOMAIN kw : kw[i][1] = k)

\* "&".join(k + "=" + kwargs[k].identifier for k in sorted(kwargs.keys()))
RECURSIVE join_key(_, _)
join_key(keys, kw) ==
    IF keys = <<>> THEN <<>>
    ELSE LET k == Head(keys)
             item == <<k, "=">> \o kw[KwargsDict(kw)[k]][2]
         IN IF Tail(keys) = <<>> THEN item
            ELSE item \o <<"&">> \o join_key(Tail(keys), kw)

context_key(kw) == join_key(sorted_keys(kw), kw)

CtxResult(cache, made, ret) == [cache |-> cache, made |-> made, ret |-> ret]

\* DataWithEvidenceDataSource.context_for
context_for(cache, made, ident, kw) ==
    LET key == context_key(kw)
        res == DictGet(cache, key)
    IN IF res = None
       THEN LET ctxid == IF ident # None /\ ident[1] # <<>> THEN ident[1]
                         ELSE MakerIdentifier \o <<"/context_for?">> \o key
                ctx == [id |-> made + 1, identifier |-> ctxid]
            IN CtxResult(DictPut(cache, key, ctx), made + 1, ctx)
       ELSE CtxResult(cache, made, res[1])

\* self.data_context.add_import(ctx): the context joins the imports of the
\* data context, whether it is among them already or not
data_context_add_import(imports, ctx) == Append(imports, ctx.id)

\* DataWithEvidenceDataSource.data_context_for
data_context_for(cache, made, imports, ident, kw) ==
    LET r == context_for(cache, made, ident, kw)
    IN [cache |-> r.cache, made |-> r.made, ret |-> r.ret,
        imports |-> data_context_add_import(imports, r.ret)]

\* A data source after __init__: no ad-hoc context, and a data context that
\* imports BASE_CONTEXT
InitCtxFor ==
    /\ ad_hoc_contexts = <<>>
    /\ contexts_made = 0
    /\ data_context_imported = <<"BASE_CONTEXT">>
    /\ ctx_last = [op |-> "init", ident |-> None, kwargs |-> <<>>, ret |-> None]
    /\ PropIdle
    /\ ExprIdle
    /\ SubIdle
    /\ TypeIdle
    /\ DsIdle
    /\ ExtIdle

ContextFor(ident, kw) ==
    LET r == context_for(ad_hoc_contexts, contexts_made, ident, kw)
    IN /\ IsKwargs(kw)
       /\ r.made <= MaxContexts
       /\ ad_hoc_contexts' = r.cache
       /\ contexts_made' = r.made
       /\ ctx_last' = [op |-> "context_for", ident |-> ident, kwargs |-> kw,
                       ret |-> Some(r.ret)]
       /\ UNCHANGED <<data_context_imported, propVars, exprVars, subVars,
                      typeVars, dsVars, extVars>>

\* ds.data_context_for(**kwargs): ident, where given, is passed on to
\* context_for among the keyword arguments
DataContextFor(ident, kw) ==
    LET r == data_context_for(ad_hoc_contexts, contexts_made,
                              data_context_imported, ident, kw)
    IN /\ IsKwargs(kw)
       /\ r.made <= MaxContexts
       /\ Len(data_context_imported) <= MaxContexts
       /\ ad_hoc_contexts' = r.cache
       /\ contexts_made' = r.made
       /\ data_context_imported' = r.imports
       /\ ctx_last' = [op |-> "data_context_for", ident |-> ident, kwargs |-> kw,
                       ret |-> Some(r.ret)]
       /\ UNCHANGED <<propVars, exprVars, subVars, typeVars, dsVars, extVars>>

NextCtxFor ==
    \/ \E ident \in Idents, kw \in KwargsLists : ContextFor(ident, kw)
    \/ \E ident \in Idents, kw \in KwargsLists : DataContextFor(ident, kw)

SpecCtxFor == InitCtxFor /\ [][NextCtxFor]_vars

\* ------------------------------------------------------------- DataSource
\* The info fields of a DataSource class in the order of info_fields, and the
\* values a field takes.
FieldOrder == <<"f1", "f2", "f3">>
Fields == {"f1", "f2", "f3"}
FieldValues == {"v1", "v2"}

\* The also tuples of the classes: f1 and f2 may name f3, f3 may name f1.
AlsoOf(f) == IF f = "f3" THEN {<<>>, <<"f1">>} ELSE {<<>>, <<"f3">>}

\* An Informational: a declared default of v1 or none, and a value "v2" or
\* none assigned in the class definition (default_override).
Informationals(f) ==
    [also : AlsoOf(f),
     default_value : {None, Some("v1")},
     default_override : {None, Some("v2")}]

\* vals = defaultdict(dict): no key of 'i', 'e', 'a', 'd' has a value yet.
NoVals == [f \in Fields |-> [i |-> None, e |-> None, a |-> None, d |-> None]]

DsCollect(err, vals) == [err |-> err, vals |-> vals]

\* The loop over inf.also, and before it one that raises as soon as a second
\* field gives a value, whatever the value:
\*   if v is not None and vals[also.name].setdefault('a', v) != v: raise
RECURSIVE also_loop_any_second(_, _, _)
also_loop_any_second(targets, v, vals) ==
    IF targets = <<>> \/ v = None THEN DsCollect("none", vals)
    ELSE LET t == Head(targets)
         IN IF vals[t].a # None
            THEN DsCollect("DuplicateAlsoException", vals)
            ELSE also_loop_any_second(Tail(targets), v, [vals EXCEPT ![t].a = v])

RECURSIVE also_loop(_, _, _)
also_loop(targets, v, vals) ==
    IF targets = <<>> \/ v = None THEN DsCollect("none", vals)
    ELSE LET t == Head(targets)
             a == IF vals[t].a = None THEN v ELSE vals[t].a
         IN IF a # v
            THEN DsCollect("DuplicateAlsoException", vals)
            ELSE also_loop(Tail(targets), v, [vals EXCEPT ![t].a = a])

\* The first loop of DataSource.__init__, over info_fields.items()
RECURSIVE collect_vals(_, _, _)
collect_vals(fields, new_kwargs, vals) ==
    IF fields = <<>> THEN DsCollect("none", vals)
    ELSE LET n == Head(fields)
             inf == info_fields[n]
             v == IF new_kwargs[n] # None THEN new_kwargs[n] ELSE inf.default_value
             vals1 == [vals EXCEPT ![n].i = new_kwargs[n],
                                   ![n].e = inf.default_override,
                                   ![n].d = inf.default_value]
             r == also_loop(inf.also, v, vals1)
         IN IF r.err # "none" THEN r
            ELSE collect_vals(Tail(fields), new_kwargs, r.vals)

\* vl.get('i', vl.get('e', vl.get('a', vl['d']))), and before it one that
\* looks for 'a' before 'e'
first_value_also_first(vl) ==
    IF vl.i # None THEN vl.i
    ELSE IF vl.a # None THEN vl.a
    ELSE IF vl.e # None THEN vl.e
    ELSE vl.d

first_value(vl) ==
    IF vl.i # None THEN vl.i
    ELSE IF vl.e # None THEN vl.e
    ELSE IF vl.a # None THEN vl.a
    ELSE vl.d

\* DataSource.__init__: the error raised and the value each info property was
\* called with (None: the property was not called).  Before it, an __init__
\* that calls the properties with what it has collected when the conflict is
\* found.
DataSource_init_assign_as_found(new_kwargs) ==
    LET r == collect_vals(FieldOrder, new_kwargs, NoVals)
    IN [err |-> r.err, assigned |-> [f \in Fields |-> first_value(r.vals[f])]]

DataSource_init(new_kwargs) ==
    LET r == collect_vals(FieldOrder, new_kwargs, NoVals)
    IN IF r.err # "none"
       THEN [err |-> r.err, assigned |-> [f \in Fields |-> None]]
       ELSE [err |-> "none", assigned |-> [f \in Fields |-> first_value(r.vals[f])]]

InitDS ==
    /\ info_fields \in {c \in [Fields -> UNION {Informationals(f) : f \in Fields}] :
                            \A f \in Fields : c[f] \in Informationals(f)}
    /\ ds_last = [op |-> "class", kwargs |-> [f \in Fields |-> None],
                  err |-> "none", assigned |-> [f \in Fields |-> None]]
    /\ PropIdle
    /\ ExprIdle
    /\ SubIdle
    /\ TypeIdle
    /\ CtxIdle
    /\ ExtIdle

Construct(new_kwargs) ==
    LET r == DataSource_init(new_kwargs)
    IN /\ ds_last' = [op |-> "__init__", kwargs |-> new_kwargs,
                      err |-> r.err, assigned |-> r.assigned]
       /\ UNCHANGED <<info_fields, propVars, exprVars, subVars, typeVars, ctxVars, extVars>>

NextDS ==
    \/ \E new_kwargs \in [Fields -> {None} \cup {Some(v) : v \in FieldValues}] :
          Construct(new_kwargs)

SpecDS == InitDS /\ [][NextDS]_vars

\* The value the variables of the components above keep in the specifications
\* below.
CoreIdle ==
    /\ PropIdle
    /\ ExprIdle
    /\ SubIdle
    /\ TypeIdle
    /\ CtxIdle
    /\ DsIdle

\* ------------------------------------------------------------------ imports
\* Three contexts, each with a statement stored in it alone.
ImportContexts == {"A", "B", "C"}
StoredIn(c) == {<<"stmt", c>>}

\* The contexts reachable from those of S along the edges, S included.
RECURSIVE Reachable(_, _)
Reachable(S, edges) ==
    LET more == S \cup {e[2] : e \in {d \in edges : d[1] \in S}}
    IN IF more = S THEN S ELSE Reachable(more, edges)

NoClosure == [c \in ImportContexts |-> None]

\* Context.add_import(other): one more edge, and every closure computed
\* before is dropped.  Before it, one that keeps the closures.
add_import_keeping_closures(edges, cache, ctx, other) ==
    [imported |-> edges \cup {<<ctx, other>>}, closure |-> cache]

add_import(edges, cache, ctx, other) ==
    [imported |-> edges \cup {<<ctx, other>>}, closure |-> NoClosure]

\* A query through a context: the closure, computed if there is none, and the
\* statements stored in its contexts.
query_through(edges, cache, ctx) ==
    LET reach == IF cache[ctx] = None THEN Reachable({ctx}, edges) ELSE cache[ctx][1]
    IN [closure |-> [cache EXCEPT ![ctx] = Some(reach)],
        statements |-> UNION {StoredIn(c) : c \in reach}]

InitImports ==
    /\ imported = {}
    /\ closure = NoClosure
    /\ import_last = [op |-> "init", ctx |-> "A", statements |-> {}]
    /\ CoreIdle
    /\ ImportOthersIdle

AddImport(ctx, other) ==
    LET r == add_import(imported, closure, ctx, other)
    IN /\ imported' = r.imported
       /\ closure' = r.closure
       /\ import_last' = [op |-> "add_import", ctx |-> ctx, statements |-> {}]
       /\ UNCHANGED <<coreVars, importOthers>>

Query(ctx) ==
    LET r == query_through(imported, closure, ctx)
    IN /\ closure' = r.closure
       /\ import_last' = [op |-> "query", ctx |-> ctx, statements |-> r.statements]
       /\ UNCHANGED <<imported, coreVars, importOthers>>

NextImports ==
    \/ \E ctx \in ImportContexts, other \in ImportContexts : AddImport(ctx, other)
    \/ \E ctx \in ImportContexts : Query(ctx)

SpecImports == InitImports /\ [][NextImports]_vars

\* ------------------------------------------------------- zero-or-more query
\* get() of a property whose owner is undefined: the query goes through the
\* zero-or-more layer, which matches value_rdf_type and, along rdfs:subClassOf,
\* every subtype of it.  The store holds any subClassOf triples over three
\* types, cyclic ones included, and four typed terms.
ZomTypes == {"T1", "T2", "T3"}
value_rdf_type == "T1"
TermOrder == <<"i1", "i2", "i3", "i4">>
TermTypes ==
    [i \in Range(TermOrder) |->
        CASE i = "i1" -> {"T1"}
          [] i = "i2" -> {"T2"}
          [] i = "i3" -> {"T3"}
          [] OTHER -> {"T2", "T3"}]

\* The types one hop below t: the subjects of (s, rdfs:subClassOf, t)
SubTypes(edges, t) == {e[1] : e \in {d \in edges : d[2] = t}}

\* One hop of the closure from the type t of the frontier: t is visited, its
\* terms join the results (a set: a term already there is not added again), and
\* the subtypes of t not visited yet join the frontier.  Before it, the hop
\* that does not look at the visited types.
zom_hop_unvisited(edges, todo, seen, results, t) ==
    [todo |-> (todo \ {t}) \cup SubTypes(edges, t),
     seen |-> seen \cup {t},
     results |-> results \o SelectSeq(TermOrder,
                     LAMBDA i : t \in TermTypes[i] /\ i \notin Range(results))]

zom_hop(edges, todo, seen, results, t) ==
    [todo |-> (todo \ {t}) \cup (SubTypes(edges, t) \ (seen \cup {t})),
     seen |-> seen \cup {t},
     results |-> results \o SelectSeq(TermOrder,
                     LAMBDA i : t \in TermTypes[i] /\ i \notin Range(results))]

\* A property with value_rdf_type T1 and an undefined owner, holding nothing
\* or one Statement, and a store; get() has not been called.
InitZom ==
    /\ subclass_of \in SUBSET (ZomTypes \X ZomTypes)
    /\ zom_todo = {}
    /\ zom_seen = {}
    /\ zom_results = <<>>
    /\ zom_pc = "idle"
    /\ \E held \in {<<>>} \cup {<<Statement(o, c)>> : o \in {"o1"}, c \in Contexts} :
           /\ _v = held
           /\ owner_properties =
                  [o \in ValueObjects |-> CountObject(held, o)]
    /\ _hdf = EmptyHdf
    /\ multiple = FALSE
    /\ kind = "Property"
    /\ last = Call("init", "-", NoCtx, "none", <<>>)
    /\ ExprIdle
    /\ SubIdle
    /\ TypeIdle
    /\ CtxIdle
    /\ DsIdle
    /\ ZomOthersIdle

\* p.get() through the view bound to ctx, up to the call of the querier: the
\* placeholder Variable is inserted and the query starts at value_rdf_type
ZomGet(ctx) ==
    /\ zom_pc = "idle"
    /\ LET st == _insert_value(Cur, Var, ctx) IN
        /\ _v' = st.v
        /\ owner_properties' = st.op
        /\ _hdf' = st.hdf
    /\ last' = Call("get", "query", ctx, "none", <<>>)
    /\ zom_todo' = {value_rdf_type}
    /\ zom_pc' = "query"
    /\ UNCHANGED <<multiple, kind, subclass_of, zom_seen, zom_results,
                   exprVars, subVars, typeVars, ctxVars, dsVars, zomOthers>>

\* The querier follows one type of the frontier
ZomHop ==
    /\ zom_pc = "query"
    /\ \E t \in zom_todo :
        LET r == zom_hop(subclass_of, zom_todo, zom_seen, zom_results, t) IN
        /\ zom_todo' = r.todo
        /\ zom_seen' = r.seen
        /\ zom_results' = r.results
    /\ UNCHANGED <<subclass_of, zom_pc, coreVars, zomOthers>>

\* The frontier is empty: the querier returns, get() removes the placeholder
\* and returns the results
ZomReturn ==
    /\ zom_pc = "query"
    /\ zom_todo = {}
    /\ LET st == _remove_value(Cur, Var, last.c) IN
        /\ _v' = st.v
        /\ owner_properties' = st.op
        /\ _hdf' = st.hdf
        /\ last' = Call("get", "query", last.c, st.err, <<>>)
    /\ zom_pc' = "done"
    /\ UNCHANGED <<multiple, kind, subclass_of, zom_todo, zom_seen, zom_results,
                   exprVars, subVars, typeVars, ctxVars, dsVars, zomOthers>>

\* The querier raises: get() is left at once, the placeholder is not removed
ZomRaise ==
    /\ zom_pc = "query"
    /\ last' = Call("get", "raise", last.c, "QueryError", <<>>)
    /\ zom_pc' = "raised"
    /\ UNCHANGED <<_v, _hdf, owner_properties, multiple, kind, subclass_of,
                   zom_todo, zom_seen, zom_results,
                   exprVars, subVars, typeVars, ctxVars, dsVars, zomOthers>>

NextZom ==
    \/ \E ctx \in Contexts : ZomGet(ctx)
    \/ ZomHop
    \/ ZomReturn
    \/ ZomRaise

SpecZom == InitZom /\ [][NextZom]_vars

\* The querier runs to completion in the calling thread: a hop or the return
\* that can be taken is taken.
SpecZomFair == SpecZom /\ WF_vars(ZomHop) /\ WF_vars(ZomReturn)

\* --------------------------------------------------------- import Overrider
\* Overrider(mapper=...): the class keeps the one instance of the process in
\* Overrider.instance and the constructor raises where there is one already.
\* Objects are numbered in the order they are made.
Overrider(instance, made) ==
    IF instance # None
    THEN [err |-> "Exception", instance |-> instance, made |-> made, obj |-> None]
    ELSE [err |-> "none", instance |-> Some(made + 1), made |-> made + 1,
          obj |-> Some(made + 1)]

\* install_module_import_wrapper(): the Overrider is made and the import
\* machinery wrapped only where the module global ImportOverrider is None; the
\* global is returned.  Before it, the function that makes one on every call.
install_always(global, instance, made, wraps) ==
    LET o == Overrider(instance, made) IN
    IF o.err # "none"
    THEN [err |-> o.err, global |-> global, instance |-> o.instance,
          made |-> o.made, wrapped |-> wraps, ret |-> None]
    ELSE [err |-> "none", global |-> o.obj, instance |-> o.instance,
          made |-> o.made, wrapped |-> wraps + 1, ret |-> o.obj]

install_module_import_wrapper(global, instance, made, wraps) ==
    IF global = None
    THEN LET o == Overrider(instance, made) IN
         IF o.err # "none"
         THEN [err |-> o.err, global |-> global, instance |-> o.instance,
               made |-> o.made, wrapped |-> wraps, ret |-> None]
         ELSE [err |-> "none", global |-> o.obj, instance |-> o.instance,
               made |-> o.made, wrapped |-> wraps + 1, ret |-> o.obj]
    ELSE [err |-> "none", global |-> global, instance |-> instance,
          made |-> made, wrapped |-> wraps, ret |-> global]

\* The package is being imported: ImportOverrider = None, and the call of
\* install_module_import_wrapper() at the end of the module is still to come.
InitOverrider ==
    /\ ImportOverrider = None
    /\ Overrider_instance = None
    /\ overriders_made = 0
    /\ wrapped = 0
    /\ over_log = <<>>
    /\ CoreIdle
    /\ OverOthersIdle

\* install_module_import_wrapper(), by the package itself or by its users
Install ==
    /\ Len(over_log) < MaxCalls
    /\ LET r == install_module_import_wrapper(ImportOverrider, Overrider_instance,
                                               overriders_made, wrapped) IN
        /\ ImportOverrider' = r.global
        /\ Overrider_instance' = r.instance
        /\ overriders_made' = r.made
        /\ wrapped' = r.wrapped
        /\ over_log' = Append(over_log,
                              [op |-> "install", err |-> r.err, ret |-> r.ret])
    /\ UNCHANGED <<coreVars, overOthers>>

\* Overrider(m) by a user of the package: the class is reached through the
\* package, whose import has installed the wrapper.
NewOverrider ==
    /\ Len(over_log) < MaxCalls
    /\ ImportOverrider # None
    /\ LET o == Overrider(Overrider_instance, overriders_made) IN
        /\ Overrider_instance' = o.instance
        /\ overriders_made' = o.made
        /\ over_log' = Append(over_log,
                              [op |-> "Overrider", err |-> o.err, ret |-> o.obj])
    /\ UNCHANGED <<ImportOverrider, wrapped, coreVars, overOthers>>

NextOverrider ==
    \/ Install
    \/ NewOverrider

SpecOverrider == InitOverrider /\ [][NextOverrider]_vars

\* ------------------------------------------------------- GenericTranslation
\* Two GenericTranslation objects, the translators and the data sources they
\* may be given; the source "su" is not defined (it has no identifier).
Translations == {"t1", "t2"}
Translators == {"tr1", "tr2"}
SourceOrder == <<"s1", "s2">>
Sources == Range(SourceOrder) \cup {"su"}

\* URIRef.n3(): the identifier between angle brackets
uri_n3(u) == <<"<", u, ">">>

\* source.defined_values: the objects of the Statements of the property, one
\* for each Statement, whose object is defined
source_defined_values(stmts) == SelectSeq(stmts, LAMBDA x : x # "su")

\* sorted(x.identifier.n3() for x in ...) and "".join of it: the n3 forms in
\* the order of the identifiers, each as many times as it is there
RECURSIVE joined_sorted(_, _)
joined_sorted(order, vals) ==
    IF order = <<>> THEN <<>>
    ELSE LET same == SelectSeq(vals, LAMBDA x : x = Head(order)) IN
         LET RECURSIVE Copies(_)
             Copies(n) == IF n = 0 THEN <<>>
                          ELSE uri_n3(Head(order)) \o Copies(n - 1) IN
         Copies(Len(same)) \o joined_sorted(Tail(order), vals)

\* make_identifier of the translation classes: namespace and digest of data
make_translation_identifier(data) == <<"Translation#">> \o data

\* Translation.defined_augment / identifier_augment
Translation_defined_augment(tr) == tr # None

Translation_identifier_augment(tr) == make_translation_identifier(uri_n3(tr[1]))

\* GenericTranslation.defined_augment / identifier_augment
GenericTranslation_defined_augment(tr, stmts) ==
    /\ Translation_defined_augment(tr)
    /\ source_defined_values(stmts) # <<>>

GenericTranslation_identifier_augment(tr, stmts) ==
    make_translation_identifier(
        (<<"<">> \o Translation_identifier_augment(tr) \o <<">">>)
            \o joined_sorted(SourceOrder, source_defined_values(stmts)))

InitTranslation ==
    /\ translator = [t \in Translations |-> None]
    /\ source_v = [t \in Translations |-> <<>>]
    /\ CoreIdle
    /\ TransOthersIdle

\* t.translator(tr): the property holds one value
SetTranslator(t, tr) ==
    /\ translator' = [translator EXCEPT ![t] = Some(tr)]
    /\ UNCHANGED <<source_v, coreVars, transOthers>>

\* t.source(s) of the multiple=True property: Property.set appends a Statement
SetSource(t, src) ==
    /\ Len(source_v[t]) < MaxSources
    /\ source_v' = [source_v EXCEPT ![t] = Append(@, src)]
    /\ UNCHANGED <<translator, coreVars, transOthers>>

NextTranslation ==
    \/ \E t \in Translations, tr \in Translators : SetTranslator(t, tr)
    \/ \E t \in Translations, src \in Sources : SetSource(t, src)

SpecTranslation == InitTranslation /\ [][NextTranslation]_vars

\* ------------------------------------------------ BaseDataTranslator.__call__
\* The keyword arguments of a call: any of output_key and output_identifier,
\* with the values they are given.
OutputKeys == {"k1", "k2"}
OutputIdentifiers == {"id1"}
CallKwargs ==
    {kw \in UNION {[d -> OutputKeys \cup OutputIdentifiers] :
                        d \in SUBSET {"output_key", "output_identifier"}} :
        /\ "output_key" \in DOMAIN kw => kw["output_key"] \in OutputKeys
        /\ "output_identifier" \in DOMAIN kw
               => kw["output_identifier"] \in OutputIdentifiers}

\* An attribute that was never assigned: the class gives it no value
NotSet == <<"not", "set">>

\* kwargs.pop(name, None)
pop(kw, name) == IF name \in DOMAIN kw THEN Some(kw[name]) ELSE None

\* __call__ up to the try: the two attributes take what the call was given
call_enter(kw) ==
    [output_key |-> pop(kw, "output_key"),
     output_identifier |-> pop(kw, "output_identifier")]

\* The finally clause of __call__, however translate was left
call_leave(key, ident, how) ==
    [output_key |-> None, output_identifier |-> None]

\* make_new_output: the ident and key the output is made with
make_new_output(key, ident) ==
    IF key = NotSet \/ ident = NotSet
    THEN [err |-> "AttributeError", ident |-> None, key |-> None]
    ELSE [err |-> "none", ident |-> ident, key |-> key]

\* A translator object: __init__ assigns neither attribute
InitCall ==
    /\ output_key = NotSet
    /\ output_identifier = NotSet
    /\ call_pc = "idle"
    /\ call_passed = <<>>
    /\ calls_made = 0
    /\ outputs = <<>>
    /\ CoreIdle
    /\ CallOthersIdle

\* translator(..., **kw), by a user or by translate itself (a translator
\* that calls itself on a part of its source): the call enters translate
CallEnter(kw) ==
    /\ calls_made < MaxTranslations
    /\ LET r == call_enter(kw) IN
        /\ output_key' = r.output_key
        /\ output_identifier' = r.output_identifier
        /\ call_passed' = Append(call_passed, r)
    /\ call_pc' = "translate"
    /\ calls_made' = calls_made + 1
    /\ UNCHANGED <<outputs, coreVars, callOthers>>

\* self.make_new_output(sources), inside translate or between calls
MakeNewOutput ==
    /\ Len(outputs) < MaxTranslations
    /\ LET r == make_new_output(output_key, output_identifier) IN
        outputs' = Append(outputs,
                          [passed |-> IF call_passed = <<>> THEN None
                                      ELSE Some(call_passed[Len(call_passed)]),
                           err |-> r.err, ident |-> r.ident, key |-> r.key])
    /\ UNCHANGED <<output_key, output_identifier, call_pc, call_passed,
                   calls_made, coreVars, callOthers>>

\* translate of the innermost call returns or raises: the call is left through
\* the finally clause
CallLeave(how) ==
    /\ call_pc = "translate"
    /\ LET r == call_leave(output_key, output_identifier, how) IN
        /\ output_key' = r.output_key
        /\ output_identifier' = r.output_identifier
    /\ call_passed' = SubSeq(call_passed, 1, Len(call_passed) - 1)
    /\ call_pc' = IF Len(call_passed) > 1 THEN "translate" ELSE how
    /\ UNCHANGED <<calls_made, outputs, coreVars, callOthers>>

NextCall ==
    \/ \E kw \in CallKwargs : CallEnter(kw)
    \/ MakeNewOutput
    \/ \E how \in {"returned", "raised"} : CallLeave(how)

SpecCall == InitCall /\ [][NextCall]_vars

\* ------------------------------------------------------------------ claims
OkSet(call) == call.op = "set" /\ call.err = "none"

\* C1: after a successful set(v) through the view bound to c, v is among the
\* values (and the defined values) visible through that view; and a value
\* becomes visible through a view bound to c2 only by a set of that value
\* through c2.
C1_SetVisibleOnlyInItsContext ==
    [][ /\ OkSet(last') =>
            /\ Wrapped(last'.v) \in values(_v', last'.c)
            /\ Wrapped(last'.v) \in defined_values(_v', last'.c)
        /\ \A c2 \in Contexts : \A o \in GraphObjects \cup {PV} :
            (o \in values(_v', c2) /\ o \notin values(_v, c2)) =>
                (OkSet(last') /\ last'.c = c2 /\ Wrapped(last'.v) = o)
      ]_vars

\* C1 witness: o1 was just set through c1 and is visible there, and is not
\* visible through c2, which shows another value.
C1_Witness ==
    /\ OkSet(last) /\ last.v = "o1" /\ last.c = "c1"
    /\ "o1" \in values(_v, "c1")
    /\ values(_v, "c2") = {"o2"}

\* C2 (as claimed): set(v1) followed by set(v2), v1 # v2, through the same
\* view: with multiple=False the property holds the Statement of v2 and none
\* of v1; with multiple=True it holds both.
C2_Multiplicity ==
    [][ (OkSet(last) /\ OkSet(last') /\ last.c = last'.c
         /\ Wrapped(last.v) # Wrapped(last'.v)) =>
            /\ Contains(_v', Statement(Wrapped(last'.v), last'.c))
            /\ multiple => Contains(_v', Statement(Wrapped(last.v), last.c))
            /\ ~multiple => ~Contains(_v', Statement(Wrapped(last.v), last.c))
      ]_vars

\* C3 (as claimed): with multiple=False a successful set through the view bound
\* to c keeps every Statement held under another context.
C3_ClearOnlyOwnContext ==
    [][ (~multiple /\ OkSet(last')) =>
            \A i \in 1..Len(_v) :
                _v[i].context # last'.c => Contains(_v', _v[i])
      ]_vars

\* C3 (amended): with multiple=False, set calls the clear of all contexts: when
\* the property held exactly one Statement, under another context than the one
\* the set is made through, the property holds only the new Statement after a
\* successful set.
C3_SetClearsOtherContext ==
    (~multiple /\ OkSet(last) /\ Len(last.held) = 1
     /\ last.held[1].context # last.c) =>
        _v = <<Statement(Wrapped(last.v), last.c)>>

\* C3 witness: a single-valued property held o1 under c2 when o2 was set
\* through c1, and now holds o2 under c1.
C3_Witness ==
    /\ ~multiple /\ OkSet(last) /\ last.v = "o2" /\ last.c = "c1"
    /\ last.held = <<Statement("o1", "c2")>>
    /\ Contains(_v, Statement("o2", "c1"))

\* C4 (as claimed): set(v) twice through the same view of a property with
\* multiple=False leaves exactly one Statement of v under that context, and p
\* once in v's owner_properties.
C4_SetTwiceOneStatement ==
    [][ (~multiple /\ OkSet(last) /\ OkSet(last') /\ last.c = last'.c
         /\ last.v = last'.v) =>
            /\ CountStmt(_v', Statement(Wrapped(last'.v), last'.c)) = 1
            /\ owner_properties'[Wrapped(last'.v)] = 1
      ]_vars

\* C5 (as claimed): the property never holds two equal Statements.
C5_NoDuplicateStatement ==
    \A i, j \in 1..Len(_v) : i # j => _v[i] # _v[j]

\* C6 (as claimed): after clear() has returned the property holds no Statement
\* and no value object lists the property in its owner_properties.
C6_ClearLeavesNothing ==
    (last.op = "clear" /\ last.err = "none") =>
        /\ _v = <<>>
        /\ \A o \in ValueObjects : owner_properties[o] = 0

\* C7 (as claimed): set(None) fails with ValueError and changes nothing.
C7_SetNoneValueError ==
    [][ (last'.op = "set" /\ last'.v = NoneV) =>
            /\ last'.err = "ValueError"
            /\ _v' = _v
      ]_vars

\* C7 (amended): set(None) fails at the call, with ValueError on a Property and
\* with the Exception of the isinstance check on an ObjectProperty, and leaves
\* the Statements, the owner_properties and the cache as they were.
C7_SetNoneFails ==
    [][ (last'.op = "set" /\ last'.v = NoneV) =>
            /\ last'.err = IF kind = "ObjectProperty" THEN "Exception" ELSE "ValueError"
            /\ _v' = _v
            /\ owner_properties' = owner_properties
            /\ _hdf' = _hdf
      ]_vars

\* C7 witness: set(None) has just failed with ValueError on a single-valued
\* property that holds a value.
C7_Witness ==
    /\ last.op = "set" /\ last.v = NoneV /\ last.err = "ValueError"
    /\ ~multiple /\ kind = "Property"
    /\ _v = last.held /\ Len(_v) = 1

\* C8: on an ObjectProperty, set of a value that is no GraphObject fails and
\* leaves the Statements and the owner_properties as they were.
C8_ObjectPropertyRejects ==
    [][ (kind = "ObjectProperty" /\ last'.op = "set" /\ ~IsGraphObject(last'.v)) =>
            /\ last'.err = "Exception"
            /\ _v' = _v
            /\ owner_properties' = owner_properties
      ]_vars

\* C8 witness: a bare scalar has just been refused by a single-valued
\* ObjectProperty that holds a value.
C8_Witness ==
    /\ kind = "ObjectProperty" /\ ~multiple
    /\ last.op = "set" /\ last.v = Raw /\ last.err = "Exception"
    /\ _v = last.held /\ Len(_v) = 1

\* C9 (as claimed): whenever a get() on a property with an undefined owner is
\* left, the Statements are those held before, no Statement has the
\* placeholder as object and the placeholder does not list the property.
C9_GetLeavesNoPlaceholder ==
    [][ (last'.op = "get" /\ last'.v \in {"query", "raise"}) =>
            /\ _v' = _v
            /\ CountObject(_v', Var) = 0
            /\ owner_properties'[Var] = 0
      ]_vars

\* C10 (as claimed): contextualize and decontextualize leave every piece of
\* the property's state as it was.
C10_ContextualizeChangesNothing ==
    [][ last'.op \in {"contextualize", "decontextualize"} =>
            /\ _v' = _v
            /\ owner_properties' = owner_properties
            /\ _hdf' = _hdf
      ]_vars

\* C10 (amended): contextualize(ctx) and decontextualize() leave the Statements
\* and the owner_properties as they were; of the cache they reset one entry:
\* the one of ctx, for decontextualize the one of the view's own context.
C10_ContextualizeResetsCacheEntry ==
    [][ last'.op \in {"contextualize", "decontextualize"} =>
            /\ _v' = _v
            /\ owner_properties' = owner_properties
            /\ _hdf' = [_hdf EXCEPT ![last'.c] = "None"]
      ]_vars

\* C10 witness: contextualize(c1) has just run on a property that holds two
\* Statements; the cache entry of c1 is reset, the one of c2 is kept.
C10_Witness ==
    /\ last.op = "contextualize" /\ last.c = "c1"
    /\ _hdf["c1"] = "None" /\ _hdf["c2"] = "True"
    /\ Len(_v) = 2

\* ------------------------------------------------------------ PropertyExpr
\* The two properties of the expression p.expr | q.expr, and what the store
\* holds for it.
ExprP == expr.of[1]
ExprQ == expr.of[2]
ExprSubjects == {t[1] : t \in Range(triples_provider(expr.e))}
ExprObjects(s) == {t[3] : t \in {u \in Range(triples_provider(expr.e)) : u[1] = s}}
ExprConflict == \E s \in ExprSubjects : Cardinality(ExprObjects(s)) > 1

\* C11 (as stated): for any two properties p and q, the set of the terms of
\* (p.expr | q.expr).to_terms() is the union of the sets of p.get_terms() and
\* q.get_terms(), and the props of the expression are the props of p.expr
\* followed by those of q.expr.
C11_UnionPropsConcatenated ==
    /\ expr.e.props = Property_expr(ExprP).props \o Property_expr(ExprQ).props
    /\ expr_last.op = "to_terms" =>
           Range(expr_last.ret[1]) = get_terms(ExprP) \cup get_terms(ExprQ)

\* C11 (amended): the set of the terms of (p.expr | q.expr).to_terms() is the
\* union of the sets of p.get_terms() and q.get_terms(); the props of the
\* expression are the props of both sides concatenated where p and q are two
\* properties, and p.expr | p.expr is p.expr itself, with props [p].
C11_UnionLaw ==
    /\ expr.e.props = IF ExprP = ExprQ THEN <<ExprP>> ELSE <<ExprP, ExprQ>>
    /\ expr_last.op = "to_terms" =>
           Range(expr_last.ret[1]) = get_terms(ExprP) \cup get_terms(ExprQ)

C11_Witness ==
    /\ expr_last.op = "to_terms"
    /\ ExprP # ExprQ
    /\ get_terms(ExprP) # {}
    /\ get_terms(ExprQ) # {}
    /\ get_terms(ExprP) # get_terms(ExprQ)
    /\ expr.e.props = <<ExprP, ExprQ>>

\* C12: the sequence to_terms() returns holds no term more than once.
C12_TermsDeduplicated ==
    expr_last.op = "to_terms" =>
        \A i, j \in DOMAIN expr_last.ret[1] :
            i # j => expr_last.ret[1][i] # expr_last.ret[1][j]

\* C13: every call to_dict(multiple=False) raises PropertyExprError where the
\* triples of the expression hold two different objects for one subject, and
\* otherwise returns a mapping with exactly one object for each subject,
\* whatever calls of to_dict came before.
C13_ToDictSingle ==
    (expr_last.op = "to_dict" /\ ~expr_last.multiple) =>
        IF ExprConflict
        THEN expr_last.err = "PropertyExprError"
        ELSE /\ expr_last.err = "none"
             /\ expr_last.ret # None
             /\ DOMAIN expr_last.ret[1] = ExprSubjects
             /\ \A s \in ExprSubjects :
                    /\ expr_last.ret[1][s].one
                    /\ expr_last.ret[1][s].objs = ExprObjects(s)

\* C14: every call to_dict(multiple=True) returns a mapping from each subject
\* to the set of all the objects of its triples, whatever calls of to_dict came
\* before.
C14_ToDictMultiple ==
    (expr_last.op = "to_dict" /\ expr_last.multiple) =>
        /\ expr_last.err = "none"
        /\ expr_last.ret # None
        /\ DOMAIN expr_last.ret[1] = ExprSubjects
        /\ \A s \in ExprSubjects :
               /\ ~expr_last.ret[1][s].one
               /\ expr_last.ret[1][s].objs = ExprObjects(s)

\* C15: a sub-expression is made at most once for each (kind, key): a call of
\* property(cls) or an attribute access whose key is in the cache returns the
\* cached object and constructs nothing, a call that succeeds leaves under its
\* key the very object it returns, and no entry of the cache is ever replaced.
C15_SubExpressionsOnce ==
    [][ /\ \A k \in DOMAIN created_sub_expressions :
               /\ k \in DOMAIN created_sub_expressions'
               /\ created_sub_expressions'[k] = created_sub_expressions[k]
        /\ sub_last'.err = "none" =>
               created_sub_expressions'[sub_last'.key] = sub_last'.ret[1]
        /\ sub_last'.key \in DOMAIN created_sub_expressions =>
               /\ sub_last'.err = "none"
               /\ sub_last'.ret[1] = created_sub_expressions[sub_last'.key]
               /\ objects_made' = objects_made ]_vars

C15_Witness ==
    /\ sub_last.op = "__getattr__"
    /\ sub_last.hit
    /\ Len(sub_last.ret[1].props) = 2
    /\ LinkKey("l1") \in DOMAIN created_sub_expressions
    /\ objects_made > 3

\* ------------------------------------------------------------------ types
\* A is an ancestor of B and B is none of A.
ProperAncestor(A, B) == issubclass(B, A) /\ ~issubclass(A, B)

\* C16 (as stated): where A is an ancestor of B and B is no ancestor of A,
\* B < A is true and A < B is false.
C16_DescendantIsLess ==
    /\ (lt_last.op = "__lt__" /\ ProperAncestor(lt_last.other, lt_last.self))
           => lt_last.res
    /\ (lt_last.op = "__lt__" /\ ProperAncestor(lt_last.self, lt_last.other))
           => ~lt_last.res

\* C16 (amended): where A is an ancestor of B and B is no ancestor of A,
\* A < B is true and B < A is false: the ancestor is the lesser.
C16_AncestorIsLess ==
    /\ (lt_last.op = "__lt__" /\ ProperAncestor(lt_last.self, lt_last.other))
           => lt_last.res
    /\ (lt_last.op = "__lt__" /\ ProperAncestor(lt_last.other, lt_last.self))
           => ~lt_last.res

C16_Witness ==
    /\ lt_last.op = "__lt__"
    /\ ProperAncestor(lt_last.self, lt_last.other)
    /\ NameIndex(class_names[lt_last.self]) > NameIndex(class_names[lt_last.other])
    /\ lt_last.res

\* C17 (as stated): < with its tie-break by name is a strict partial order over
\* the classes: irreflexive, asymmetric and transitive.
C17_StrictPartialOrder ==
    /\ \A x \in Classes : ~__lt__(x, x)
    /\ \A x, y \in Classes : __lt__(x, y) => ~__lt__(y, x)
    /\ \A x, y, z \in Classes : (__lt__(x, y) /\ __lt__(y, z)) => __lt__(x, z)

\* C17 (amended): < with its tie-break by name is irreflexive and asymmetric
\* over the classes, shown on the comparison that was made and its converse.
C17_IrreflexiveAsymmetric ==
    lt_last.op = "__lt__" =>
        /\ lt_last.self = lt_last.other => ~lt_last.res
        /\ lt_last.res => ~__lt__(lt_last.other, lt_last.self)
        /\ lt_last.res = __lt__(lt_last.self, lt_last.other)

\* A comparison by the names alone that came out true, between two classes
\* which a third one, related to one of them, brings into a cycle.
C17_Witness ==
    /\ lt_last.op = "__lt__"
    /\ lt_last.res
    /\ ~issubclass(lt_last.self, lt_last.other)
    /\ ~issubclass(lt_last.other, lt_last.self)
    /\ \E z \in Classes :
           /\ __lt__(lt_last.other, z)
           /\ __lt__(z, lt_last.self)

\* ------------------------------------------- get_most_specific_rdf_type
\* Two types with a registered relation between them: one is, or descends
\* from, the other.
GmsrtRelated(a, b) ==
    \/ IsOrDescends(a, b, gmsrt_last.registered)
    \/ IsOrDescends(b, a, gmsrt_last.registered)

\* C18: get_most_specific_rdf_type returns the sole asserted type where exactly
\* one type is asserted and the base is absent or equal to it; the base where
\* no type is asserted; None where no type is asserted and no base given,
\* where two or more asserted types have no registered relation between them,
\* and where the single asserted type is unrelated to the base.
C18_MostSpecificType ==
    gmsrt_last.op = "get_most_specific_rdf_type" =>
        LET types == gmsrt_last.types
            base == gmsrt_last.base
            res == gmsrt_last.res
        IN /\ \A t \in Classes :
                  (types = {t} /\ (base = None \/ base = Some(t))) => res = Some(t)
           /\ types = {} => res = base
           /\ (types = {} /\ base = None) => res = None
           /\ (Cardinality(types) >= 2
                   /\ \A a, b \in types : a # b => ~GmsrtRelated(a, b)) => res = None
           /\ \A t \in Classes :
                  (types = {t} /\ base # None /\ ~GmsrtRelated(t, base[1]))
                      => res = None

C18_Witness ==
    /\ gmsrt_last.op = "get_most_specific_rdf_type"
    /\ gmsrt_last.registered
    /\ Cardinality(gmsrt_last.types) = 2
    /\ \A a, b \in gmsrt_last.types : a # b => ~GmsrtRelated(a, b)
    /\ \E k \in Classes : class_bases[k] # {}
    /\ gmsrt_last.res = None

\* ------------------------------------------------------------- context_for
\* The identifier the claim gives a context made with no ident: the maker's
\* identifier, '/context_for?' and the key=value pairs, sorted by key and
\* joined with '&'.
DefaultIdentifier(kw) ==
    LET d == [k \in {kw[i][1] : i \in DOMAIN kw} |->
                 (CHOOSE i \in DOMAIN kw : kw[i][1] = k)]
        pair(k) == <<k, "=">> \o kw[d[k]][2]
        both == pair("a") \o <<"&">> \o pair("b")
    IN MakerIdentifier \o <<"/context_for?">> \o
           (IF DOMAIN d = {} THEN <<>>
            ELSE IF DOMAIN d = {"a"} THEN pair("a")
            ELSE IF DOMAIN d = {"b"} THEN pair("b")
            ELSE both)

\* The same keyword parameters, in whatever order they were written
SameKwargs(kw1, kw2) == Range(kw1) = Range(kw2)

\* C19: two context_for calls with equal keyword parameters, in any keyword
\* order and with any other context_for calls between them, return the same
\* Context object, and a call with no ident returns a context whose identifier
\* is the maker's identifier, '/context_for?' and the sorted key=value pairs
\* joined with '&'.
C19_ContextForIdempotent ==
    [][ /\ \A key \in DOMAIN ad_hoc_contexts :
               /\ key \in DOMAIN ad_hoc_contexts'
               /\ ad_hoc_contexts'[key] = ad_hoc_contexts[key]
        /\ \A kw \in KwargsLists :
               (IsKwargs(kw) /\ SameKwargs(kw, ctx_last'.kwargs)) =>
                   ad_hoc_contexts'[context_key(kw)] = ctx_last'.ret[1]
        /\ ctx_last'.ident = None =>
               ctx_last'.ret[1].identifier = DefaultIdentifier(ctx_last'.kwargs)
      ]_vars

\* ------------------------------------------------------------- DataSource
\* The value an info field carries into the fields of its also tuple: the one
\* passed to __init__, or else its declared default.
Carried(f) ==
    IF ds_last.kwargs[f] # None THEN ds_last.kwargs[f]
    ELSE info_fields[f].default_value

\* Two fields that name the same field in their also tuples
FeedSame(f1, f2) ==
    f1 # f2 /\ Range(info_fields[f1].also) \cap Range(info_fields[f2].also) # {}

\* C20: the construction of a DataSource fails with DuplicateAlsoException
\* where two info fields that name the same field in their also tuples carry
\* different values, and does not fail with it where those fields carry equal
\* values or at most one of them carries a value.
C20_DuplicateAlso ==
    ds_last.op = "__init__" =>
        (ds_last.err = "DuplicateAlsoException"
            <=> \E f1, f2 \in Fields :
                    /\ FeedSame(f1, f2)
                    /\ Carried(f1) # None
                    /\ Carried(f2) # None
                    /\ Carried(f1) # Carried(f2))

C20_Witness ==
    /\ ds_last.op = "__init__"
    /\ ds_last.err = "DuplicateAlsoException"
    /\ FeedSame("f1", "f2")
    /\ ds_last.kwargs["f1"] = None
    /\ Carried("f1") = Some("v1")
    /\ Carried("f2") = Some("v2")

\* The values a field receives from the fields that name it in their also
\* tuples.
AlsoReceived(f) ==
    {Carried(g) : g \in {h \in Fields : f \in Range(info_fields[h].also)}} \ {None}

\* C21: a construction that succeeds assigns each info field the first value
\* there is among the one passed to __init__, the one assigned in the class
\* definition (default_override), a value received from an also field and the
\* declared default; with none of them the property is not set.
C21_Precedence ==
    (ds_last.op = "__init__" /\ ds_last.err = "none") =>
        \A f \in Fields :
            ds_last.assigned[f] =
                IF ds_last.kwargs[f] # None THEN ds_last.kwargs[f]
                ELSE IF info_fields[f].default_override # None
                THEN info_fields[f].default_override
                ELSE IF AlsoReceived(f) # {} THEN CHOOSE v \in AlsoReceived(f) : TRUE
                ELSE info_fields[f].default_value

C21_Witness ==
    /\ ds_last.op = "__init__"
    /\ ds_last.err = "none"
    /\ ds_last.kwargs["f3"] = None
    /\ info_fields["f3"].default_override = Some("v2")
    /\ AlsoReceived("f3") = {Some("v1")}
    /\ ds_last.assigned["f3"] = Some("v2")
    /\ ds_last.kwargs["f2"] = None
    /\ info_fields["f2"].default_value = None
    /\ info_fields["f2"].default_override = None
    /\ ds_last.assigned["f2"] = None

\* ------------------------------------------------------------------ imports
\* A path of imported edges from a to b, of at most three edges (there are
\* three contexts).
Imports(a, b) == <<a, b>> \in imported
ImportPath(a, b) ==
    \/ a = b
    \/ Imports(a, b)
    \/ \E m \in ImportContexts : Imports(a, m) /\ Imports(m, b)
    \/ \E m, n \in ImportContexts : Imports(a, m) /\ Imports(m, n) /\ Imports(n, b)

\* C22: after any sequence of add_import calls a query through a context sees
\* exactly the statements of the contexts reachable from it along imported
\* edges, those added after an earlier query included.
C22_ImportClosure ==
    import_last.op = "query" =>
        import_last.statements =
            UNION {StoredIn(c) : c \in {d \in ImportContexts : ImportPath(import_last.ctx, d)}}

\* A query through A that reads the closure computed after the last edge was
\* added and sees the statement stored only in C, which A does not import.
C22_Witness ==
    /\ import_last.op = "query"
    /\ import_last.ctx = "A"
    /\ imported = {<<"A", "B">>, <<"B", "C">>, <<"C", "A">>}
    /\ closure["B"] # None
    /\ <<"stmt", "C">> \in import_last.statements

\* ------------------------------------------------------- zero-or-more query
\* C24: get() of a property with an undefined owner, through the zero-or-more
\* layer along the subtype predicate, terminates (it returns, or the querier
\* raises) for every store, cyclic ones included, and its results hold each
\* term at most once.
C24_ZeroOrMoreTerminates ==
    /\ (zom_pc = "query") ~> (zom_pc \in {"done", "raised"})
    /\ [](\A i, j \in DOMAIN zom_results :
              zom_results[i] = zom_results[j] => i = j)

\* A returned query over a store where T1 and T2 are subtypes of each other,
\* with the term typed by both T2 and T3 among the results.
C24_Witness ==
    /\ zom_pc = "done"
    /\ last.op = "get"
    /\ last.err = "none"
    /\ CountObject(_v, Var) = 0
    /\ <<"T2", "T1">> \in subclass_of
    /\ <<"T1", "T2">> \in subclass_of
    /\ <<"T3", "T2">> \in subclass_of
    /\ "i4" \in Range(zom_results)
    /\ zom_seen = ZomTypes

\* --------------------------------------------------------- import Overrider
\* C25: a process has at most one import Overrider: the construction of one
\* while one exists raises, and install_module_import_wrapper, however many
\* times it is called, makes the Overrider and wraps the import machinery
\* once and returns the same Overrider every time.
C25_OneOverrider ==
    /\ overriders_made <= 1
    /\ wrapped <= 1
    /\ \A i \in DOMAIN over_log :
           /\ over_log[i].op = "install" =>
                  /\ over_log[i].err = "none"
                  /\ over_log[i].ret = Some(1)
                  /\ over_log[i].ret = ImportOverrider
           /\ over_log[i].op = "Overrider" => over_log[i].err = "Exception"

\* The wrapper was installed three times and an Overrider was constructed in
\* between.
C25_Witness ==
    /\ Len(over_log) >= 4
    /\ Cardinality({i \in DOMAIN over_log : over_log[i].op = "install"}) >= 3
    /\ \E i \in DOMAIN over_log :
           /\ over_log[i].op = "Overrider"
           /\ i < Len(over_log)
           /\ over_log[i + 1].op = "install"
    /\ overriders_made = 1
    /\ wrapped = 1

\* ------------------------------------------------------- GenericTranslation
\* C26: the identifier of a GenericTranslation is a function of the identifier
\* of its translator and of the set of identifiers of its defined sources:
\* two defined translations with the same translator and the same set of
\* defined sources have the same identifier.
C26_IdentifierOfSourceSet ==
    \A t, u \in Translations :
        (/\ GenericTranslation_defined_augment(translator[t], source_v[t])
         /\ GenericTranslation_defined_augment(translator[u], source_v[u])
         /\ translator[t] = translator[u]
         /\ Range(source_defined_values(source_v[t]))
                = Range(source_defined_values(source_v[u])))
        => GenericTranslation_identifier_augment(translator[t], source_v[t])
               = GenericTranslation_identifier_augment(translator[u], source_v[u])

\* ------------------------------------------------- owner_properties and _v
\* C27: in every reachable state, for every value object v, the property is
\* in v.owner_properties as many times as it holds Statements with object v.
C27_OwnerPropertiesMatch ==
    \A obj \in DOMAIN owner_properties :
        owner_properties[obj] = CountObject(_v, obj)

\* --------------------------------------------------- has_defined_value cache
\* C28: has_defined_value() through the view bound to a context answers true
\* exactly when the property holds a Statement of that context whose object is
\* defined at that moment.
C28_CacheNeverStale ==
    \A ctx \in Contexts :
        has_defined_value(Cur, ctx)
            <=> (\E i \in 1..Len(_v) : _v[i].context = ctx /\ defined(_v[i].object))

\* ------------------------------------------------ BaseDataTranslator.__call__
\* C29: inside translate output_key and output_identifier are the values the
\* call was given; after a call, left by return or by raise, both are None;
\* an output made inside a call is made with the values of that call and one
\* made between calls with None.
C29_OutputAttributesScoped ==
    /\ call_pc = "translate" =>
           /\ output_key = call_passed[Len(call_passed)].output_key
           /\ output_identifier = call_passed[Len(call_passed)].output_identifier
    /\ call_pc \in {"returned", "raised"} =>
           /\ output_key = None
           /\ output_identifier = None
    /\ \A i \in DOMAIN outputs :
           /\ outputs[i].passed # None =>
                  /\ outputs[i].err = "none"
                  /\ outputs[i].key = outputs[i].passed[1].output_key
                  /\ outputs[i].ident = outputs[i].passed[1].output_identifier
           /\ (outputs[i].passed = None /\ outputs[i].err = "none") =>
                  /\ outputs[i].key = None
                  /\ outputs[i].ident = None

\* ------------------------------------------------- DuplicateAlsoException
\* C30: when the construction of a DataSource fails with
\* DuplicateAlsoException, no info-field property has been called with a
\* value.
C30_NoAssignmentOnConflict ==
    (ds_last.op = "__init__" /\ ds_last.err = "DuplicateAlsoException")
        => \A f \in Fields : ds_last.assigned[f] = None

\* A construction given values for f1 and f2, which both name f3, that failed.
C30_Witness ==
    /\ ds_last.op = "__init__"
    /\ ds_last.err = "DuplicateAlsoException"
    /\ ds_last.kwargs["f1"] = Some("v1")
    /\ ds_last.kwargs["f2"] = Some("v2")
    /\ \A f \in Fields : ds_last.assigned[f] = None

====
